---- MODULE Spec2Model ----
(***************************************************************************)
(* Link registry of the URL shortener: the handlers of the HTTP routes     *)
(* (redirect, data lookup, visit, create, list, delete, CSV export) over   *)
(* the "links" table and the export bucket.  Strings are sequences of      *)
(* one-character strings.  Every database statement and every upload is    *)
(* one atomic step; a handler that awaits two of them (lookup, then        *)
(* update; select, then upload) is two steps, and other requests run in    *)
(* between.                                                                *)
(*                                                                         *)
(*   store     the rows of the links table                                 *)
(*   nextId    the next value of the serial sequence of links.id           *)
(*   now       the latest created_at handed out                            *)
(*   reqs      the bag of handlers between their two statements: redirect  *)
(*             and visit handlers with the link they found, export         *)
(*             handlers with the rows they read                            *)
(*   started   how many redirect and visit handlers have found a link      *)
(*   answered  per stored row, the requests that found it and were         *)
(*             answered 301 or 200 (history)                               *)
(*   bucket    the objects of the export bucket, by key                    *)
(*   resp      the last reply sent                                         *)
(***************************************************************************)
EXTENDS Integers, Sequences, FiniteSets, Bags, TLC

VARIABLES store, nextId, now, reqs, started, answered, bucket, resp

vars == <<store, nextId, now, reqs, started, answered, bucket, resp>>

(* ------------------------------ bounds -------------------------------- *)

\* Values the serial sequence of links.id may hand out.
MaxIds == 2
\* Redirect and visit requests that find their link (each runs once; those
\* answered 404 or 500 at the lookup are not counted).
NumReqs == 2
\* Rows seeded in the listing specification.
MaxListRows == 11
\* Pages asked for in the listing specification.
MaxPage == 2
\* Links created in the export specification.
MaxCsvRows == 2
\* Export requests that read at least one link.
MaxExports == 2

(* ------------------------- program constants -------------------------- *)

\* z.string().min(3) on code and custom_name.
MinLen == 3
\* varchar('code', { length: 10 }).
CodeColumnLen == 10
\* nanoid(6).
NanoLen == 6
\* page: z.coerce.number().min(1)
MinPage == 1
\* pageSize: z.coerce.number().min(10).max(100)
MinPageSize == 10
MaxPageSize == 100

\* The literal removed from custom_name.
BrevPrefix == <<"b", "r", "e", "v", ".", "l", "y", "/">>

\* env.CLOUDFLARE_PUBLIC_URL, a configured absolute URL.
PublicUrl == <<"p", ":", "u">>

\* An optional field that the request does not carry (JavaScript undefined).
\* It is no string: its one element is not a character.
Undefined == <<"undefined">>

\* findFirst() found no row.
NoLink == [id |-> 0]

(* ------------------------------ strings ------------------------------- *)

Rep(c, n) == [i \in 1..n |-> c]

Max(a, b) == IF a >= b THEN a ELSE b

Min(a, b) == IF a <= b THEN a ELSE b

\* Position of the first occurrence of pat in s, 0 when there is none.
IndexOf(s, pat) ==
  LET hits == {i \in 1..(Len(s) - Len(pat) + 1) : SubSeq(s, i, i + Len(pat) - 1) = pat}
  IN IF hits = {} THEN 0 ELSE CHOOSE i \in hits : \A j \in hits : i <= j

\* String.prototype.replace(pat, with), pat a string: the first occurrence only.
Replace(s, pat, with) ==
  LET i == IndexOf(s, pat)
  IN IF i = 0 THEN s
     ELSE SubSeq(s, 1, i - 1) \o with \o SubSeq(s, i + Len(pat), Len(s))

\* JavaScript truthiness of an optional string.
Truthy(s) == s # Undefined /\ s # <<>>

Letters == {"a", "b", "h", "p", "u", "x"}

\* z.string().url(): the string parses as an absolute URL, a scheme of letters
\* followed by a colon.
IsUrl(s) ==
  \E i \in 2..Len(s) : s[i] = ":" /\ \A j \in 1..(i - 1) : s[j] \in Letters

\* z.string().min(3)
ZodMin3(s) == s # Undefined /\ Len(s) >= MinLen

\* z.string().min(3).optional()
ZodMin3Optional(s) == s = Undefined \/ Len(s) >= MinLen

(* ------------------------------ the table ----------------------------- *)

Codes(rows) == {r.code : r \in rows}

Ids(rows) == {r.id : r \in rows}

\* db.query.links.findFirst({ where: eq(links.code, code) })
FindFirst(rows, code) ==
  IF \E r \in rows : r.code = code
  THEN CHOOSE r \in rows : r.code = code
  ELSE NoLink

\* The base URL and the code joined without the separator.
ShortUrlNoSlash(code) == PublicUrl \o code

\* concat(PUBLIC_URL::text, '/', code) and `${PUBLIC_URL}/${code}`
ShortUrl(code) == PublicUrl \o <<"/">> \o code

(* ------------------------- requests and replies ----------------------- *)

\* A thrown ZodError reaches Fastify's default error handler (server.ts sets
\* no error handler): an error without a statusCode is answered with 500.
ZodErrorStatus == 500

\* The last reply sent.  pre (the table before the request), submitted (the
\* code handed to the insert), found (the link the lookup returned) and
\* updated (the rows the update matched) are history, kept for the properties.
Reply(op, status, req, pre, submitted, body, updated) ==
  [op |-> op, status |-> status, req |-> req, pre |-> pre,
   submitted |-> submitted, body |-> body, updated |-> updated, found |-> NoLink]

NoReply == Reply("none", 0, Undefined, {}, Undefined, Undefined, 0)

\* A handler between its lookup and its update.
Handler(kind, code, link) == [kind |-> kind, code |-> code, link |-> link]

ValidUrl == <<"h", ":", "x">>

InvalidUrl == <<"x">>

CodeInputs ==
  {Undefined} \cup
  {Rep("a", n) : n \in {MinLen - 1, MinLen, CodeColumnLen, CodeColumnLen + 1}}

\* undefined, "aa", "brev.ly/", "brev.ly/aa", "brev.ly/aaa", "abrev.ly/a"
CustomNameInputs ==
  {Undefined, Rep("a", MinLen - 1), <<"a">> \o BrevPrefix \o <<"a">>} \cup
  {BrevPrefix \o Rep("a", n) : n \in {0, MinLen - 1, MinLen}}

\* Values nanoid(6) may return.
NanoIds == {Rep(c, NanoLen) : c \in {"a", "b"}}

\* Request bodies: a code alone, a custom_name alone, a code with a
\* custom_name that holds the prefix, and a malformed original_url.
CreateBodies ==
  [original_url : {ValidUrl}, code : CodeInputs, custom_name : {Undefined}]
  \cup
  [original_url : {ValidUrl}, code : {Undefined}, custom_name : CustomNameInputs]
  \cup
  [original_url : {ValidUrl}, code : {Rep("a", MinLen)},
   custom_name : {c \in CustomNameInputs : c # Undefined /\ IndexOf(c, BrevPrefix) > 0}]
  \cup
  [original_url : {InvalidUrl}, code : {Undefined}, custom_name : {Undefined}]

\* Codes asked for in a path.
PathCodes == {Rep("a", n) : n \in {MinLen - 1, MinLen, NanoLen}}

(* ------------------------------- create ------------------------------- *)

\* createLinkSchema.parse(request.body) does not throw.
CreateValid(body) ==
  /\ IsUrl(body.original_url)
  /\ ZodMin3Optional(body.code)
  /\ ZodMin3Optional(body.custom_name)

\* custom_name?.replace('brev.ly/', '')
CleanCustomName(custom_name) ==
  IF custom_name = Undefined THEN Undefined ELSE Replace(custom_name, BrevPrefix, <<>>)

\* As ResolveCode, with a generated code one character short.
NanoCutShort(inputCode, custom_name, generated) ==
  IF Truthy(CleanCustomName(custom_name)) THEN CleanCustomName(custom_name)
  ELSE IF Truthy(inputCode) THEN inputCode
  ELSE SubSeq(generated, 1, NanoLen - 1)

\* cleanedCustomName || inputCode || nanoid(6)
ResolveCode(inputCode, custom_name, generated) ==
  IF Truthy(CleanCustomName(custom_name)) THEN CleanCustomName(custom_name)
  ELSE IF Truthy(inputCode) THEN inputCode
  ELSE generated

\* What the insert raises: 22001 (value too long for varchar(10)), 23505
\* (links_code_unique violated), or nothing.
InsertError(rows, code) ==
  IF Len(code) > CodeColumnLen THEN "22001"
  ELSE IF code \in Codes(rows) THEN "23505"
  ELSE "none"

\* The catch clause of the create handler.
CatchStatus(error) == IF error = "23505" THEN 400 ELSE 500

\* As NewRow, with the creating request counted as a first access.
NewRowCounted(id, code, original_url, ts) ==
  [id |-> id, code |-> code, original_url |-> original_url,
   created_at |-> ts, access_count |-> 1]

\* The inserted row: id from the serial sequence, created_at from now(),
\* access_count from its default 0.
NewRow(id, code, original_url, ts) ==
  [id |-> id, code |-> code, original_url |-> original_url,
   created_at |-> ts, access_count |-> 0]

\* POST /api/links.  gen is the value nanoid(6) returns if it is called, ts
\* the value of now() in the insert.
CreateLink(body, gen, ts) ==
  IF ~CreateValid(body)
  THEN /\ resp' = Reply("create", ZodErrorStatus, body, store, Undefined, Undefined, 0)
       /\ UNCHANGED <<store, nextId, now, reqs, started, answered, bucket>>
  ELSE LET code == ResolveCode(body.code, body.custom_name, gen)
           error == InsertError(store, code)
           row == NewRow(nextId, code, body.original_url, ts)
       IN /\ nextId' = nextId + 1
          /\ UNCHANGED <<reqs, started, bucket>>
          /\ IF error = "none"
             THEN /\ store' = store \cup {row}
                  /\ now' = Max(now, ts)
                  /\ answered' = (row.id :> 0) @@ answered
                  /\ resp' = Reply("create", 201, body, store, code,
                                   [id |-> row.id, code |-> row.code,
                                    shortUrl |-> ShortUrl(row.code)], 0)
             ELSE /\ resp' = Reply("create", CatchStatus(error), body, store, code,
                                   Undefined, 0)
                  /\ UNCHANGED <<store, now, answered>>

\* nanoid(6) is evaluated only when the two operands before it are falsy.
NanoCalls(body) ==
  IF Truthy(CleanCustomName(body.custom_name)) \/ Truthy(body.code)
  THEN {Undefined}
  ELSE NanoIds

Create == \E body \in CreateBodies, ts \in {now + 1} : \E gen \in NanoCalls(body) :
  /\ CreateValid(body) => nextId <= MaxIds
  /\ CreateLink(body, gen, ts)

(* ------------------------- redirect and visit ------------------------- *)

\* Status of a completed redirect (reply.redirect(url, 301)) or visit.
DoneStatus(kind) == IF kind = "redirect" THEN 301 ELSE 200

\* A fetch-then-store increment: the count read by the lookup, plus one.
FetchThenStore(rows, link) ==
  {IF r.id = link.id THEN [r EXCEPT !.access_count = link.access_count + 1] ELSE r : r \in rows}

\* An increment of the rows that carry the code of the link found.
UpdateByCode(rows, link) ==
  {IF r.code = link.code THEN [r EXCEPT !.access_count = @ + 1] ELSE r : r \in rows}

\* update(links).set({access_count: sql`access_count + 1`}).where(eq(links.id, link.id))
UpdateAccessCount(rows, link) ==
  {IF r.id = link.id THEN [r EXCEPT !.access_count = @ + 1] ELSE r : r \in rows}

\* GET /:code and POST /api/links/:code/visit up to the first await: the
\* parse of the path and the lookup by code.
Lookup(kind, code) ==
  IF ~ZodMin3(code)
  THEN /\ resp' = Reply(kind, ZodErrorStatus, code, store, Undefined, Undefined, 0)
       /\ UNCHANGED <<store, nextId, now, reqs, started, answered, bucket>>
  ELSE LET link == FindFirst(store, code)
       IN IF link = NoLink
          THEN /\ resp' = Reply(kind, 404, code, store, Undefined, Undefined, 0)
               /\ UNCHANGED <<store, nextId, now, reqs, started, answered, bucket>>
          ELSE /\ started < NumReqs
               /\ started' = started + 1
               /\ reqs' = reqs (+) SetToBag({Handler(kind, code, link)})
               /\ UNCHANGED <<store, nextId, now, answered, bucket, resp>>

\* The rest of the handler h: the update by id, then the reply.
Increment(h) ==
  /\ BagIn(h, reqs)
  /\ h.kind \in {"redirect", "visit"}
  /\ LET hit == {r \in store : r.id = h.link.id}
     IN /\ store' = UpdateAccessCount(store, h.link)
        /\ answered' = [i \in DOMAIN answered |->
                          IF i = h.link.id THEN answered[i] + 1 ELSE answered[i]]
        /\ resp' = [Reply(h.kind, DoneStatus(h.kind), h.code, store, Undefined,
                          h.link.original_url, Cardinality(hit))
                     EXCEPT !.found = h.link]
  /\ reqs' = reqs (-) SetToBag({h})
  /\ UNCHANGED <<nextId, now, started, bucket>>

Redirect == \E code \in PathCodes : Lookup("redirect", code)

Visit == \E code \in PathCodes : Lookup("visit", code)

Update == \E h \in BagToSet(reqs) : Increment(h)

(* ----------------------------- data lookup ---------------------------- *)

LinkData(link) ==
  [id |-> link.id, code |-> link.code, original_url |-> link.original_url,
   access_count |-> link.access_count, created_at |-> link.created_at,
   short_url |-> ShortUrl(link.code)]

\* GET /api/links/:code
GetLink(code) ==
  /\ IF ~ZodMin3(code)
     THEN resp' = Reply("get", ZodErrorStatus, code, store, Undefined, Undefined, 0)
     ELSE LET link == FindFirst(store, code)
          IN IF link = NoLink
             THEN resp' = Reply("get", 404, code, store, Undefined, Undefined, 0)
             ELSE resp' = Reply("get", 200, code, store, Undefined, LinkData(link), 0)
  /\ UNCHANGED <<store, nextId, now, reqs, started, answered, bucket>>

Get == \E code \in PathCodes : GetLink(code)

(* ------------------------------- delete ------------------------------- *)

\* delete(links).where(eq(links.code, code)): the rows left.
DeleteByCode(rows, code) == {r \in rows : r.code # code}

\* DELETE /api/links/:code
DeleteLink(code) ==
  /\ IF ~ZodMin3(code)
     THEN /\ resp' = Reply("delete", ZodErrorStatus, code, store, Undefined, Undefined, 0)
          /\ UNCHANGED <<store, answered>>
     ELSE LET left == DeleteByCode(store, code)
              deleted == store \ left
          IN /\ store' = left
             /\ answered' = [i \in Ids(left) |-> answered[i]]
             /\ resp' = Reply("delete", IF deleted = {} THEN 404 ELSE 204, code, store,
                              Undefined, Undefined, 0)
  /\ UNCHANGED <<nextId, now, reqs, started, bucket>>

Delete == \E code \in PathCodes : DeleteLink(code)

(* -------------------------------- list -------------------------------- *)

\* getLinksSchema.parse(request.query) does not throw.
ListValid(page, pageSize) ==
  /\ page >= MinPage
  /\ pageSize >= MinPageSize
  /\ pageSize <= MaxPageSize

\* ORDER BY created_at DESC: the orders the engine may return; rows of equal
\* created_at come in any order.
RECURSIVE OrderByCreatedAtDesc(_)
OrderByCreatedAtDesc(rows) ==
  IF rows = {} THEN {<< >>}
  ELSE LET newest == {r \in rows : \A o \in rows : o.created_at <= r.created_at}
       IN UNION {{<<r>> \o t : t \in OrderByCreatedAtDesc(rows \ {r})} : r \in newest}

\* An offset that skips the first page.
OffsetByPage(page, pageSize) == page * pageSize

\* .offset((page - 1) * pageSize)
PageOffset(page, pageSize) == (page - 1) * pageSize

\* LIMIT limit OFFSET offset
LimitOffset(seq, limit, offset) == SubSeq(seq, offset + 1, Min(Len(seq), offset + limit))

\* GET /api/links
ListLinks(page, pageSize) ==
  /\ IF ~ListValid(page, pageSize)
     THEN resp' = Reply("list", ZodErrorStatus, [page |-> page, pageSize |-> pageSize],
                        store, Undefined, Undefined, 0)
     ELSE \E ordered \in OrderByCreatedAtDesc(store) :
            LET rows == LimitOffset(ordered, pageSize, PageOffset(page, pageSize))
            IN resp' = Reply("list", 200, [page |-> page, pageSize |-> pageSize], store,
                             Undefined, [i \in 1..Len(rows) |-> LinkData(rows[i])], 0)
  /\ UNCHANGED <<store, nextId, now, reqs, started, answered, bucket>>

List == \E page \in {MinPage}, pageSize \in {MinPageSize} :
  ListLinks(page, pageSize)

(* ----------------------------- CSV export ---------------------------- *)

NewLine == <<"\n">>

\* 'URL original,URL encurtada,Contagem de acessos,Data de criação', the
\* header line before its line break.
CsvHeaderLine ==
  <<"U", "R", "L", " ", "o", "r", "i", "g", "i", "n", "a", "l", ",", "U",
    "R", "L", " ", "e", "n", "c", "u", "r", "t", "a", "d", "a", ",", "C",
    "o", "n", "t", "a", "g", "e", "m", " ", "d", "e", " ", "a", "c", "e",
    "s", "s", "o", "s", ",", "D", "a", "t", "a", " ", "d", "e", " ", "c",
    "r", "i", "a", "ç", "ã", "o">>

\* 'URL original,...,Data de criação\n'
CsvHeader == CsvHeaderLine \o NewLine

\* String(n) of a non-negative integer: its decimal digits.
RECURSIVE Decimal(_)
Decimal(n) ==
  LET digit == <<"0", "1", "2", "3", "4", "5", "6", "7", "8", "9">>[(n % 10) + 1]
  IN IF n < 10 THEN <<digit>> ELSE Decimal(n \div 10) \o <<digit>>

\* link.created_at.toISOString(): a date, "T", a time and "Z", made of
\* digits, "-", ":" and "."; the instant ts is written as its number.
ToISOString(ts) == <<"T">> \o Decimal(ts) \o <<"Z">>

\* Array.prototype.join(sep)
RECURSIVE Join(_, _)
Join(lines, sep) ==
  IF Len(lines) = 0 THEN <<>>
  ELSE IF Len(lines) = 1 THEN lines[1]
  ELSE lines[1] \o sep \o Join(Tail(lines), sep)

\* `${link.original_url},${shortUrl},${link.access_count},${created_at ISO}`
CsvLine(link) ==
  link.original_url \o <<",">> \o ShortUrl(link.code) \o <<",">>
    \o Decimal(link.access_count) \o <<",">> \o ToISOString(link.created_at)

\* csvHeader + allLinks.map(...).join('\n')
CsvContent(allLinks) ==
  CsvHeader \o Join([i \in 1..Len(allLinks) |-> CsvLine(allLinks[i])], NewLine)

\* randomUUID(): a value no earlier call returned; the k-th is "u" and k.
RandomUUID(used) == <<"u">> \o Decimal(Cardinality(used) + 1)

\* `${randomUUID()}.csv`
FileName(uuid) == uuid \o <<".", "c", "s", "v">>

\* `${env.CLOUDFLARE_PUBLIC_URL}/${fileName}`
CsvUrl(fileName) == PublicUrl \o <<"/">> \o fileName

\* Export handlers between their select and their upload.
Exporting == {h \in BagToSet(reqs) : h.kind = "export"}

\* POST /api/links/export/csv up to the second await: the select ordered by
\* created_at, and the reply when it returned no row.
ExportRead ==
  \E allLinks \in OrderByCreatedAtDesc(store) :
    IF Len(allLinks) = 0
    THEN /\ resp' = [Reply("export", 400, Undefined, store, Undefined,
                           [message |-> "No links to export"], 0)
                      EXCEPT !.found = allLinks]
         /\ UNCHANGED <<store, nextId, now, reqs, started, answered, bucket>>
    ELSE /\ Cardinality(DOMAIN bucket)
              + BagCardinality([h \in Exporting |-> reqs[h]]) < MaxExports
         /\ reqs' = reqs (+) SetToBag({Handler("export", Undefined, allLinks)})
         /\ UNCHANGED <<store, nextId, now, started, answered, bucket, resp>>

\* The rest of the export handler h: the PutObjectCommand, then the reply.
\* submitted is the object handed to the bucket.  (The catch clause answers
\* 500 when the database or the bucket is out of service; outages of the
\* two services are outside this model, for every route.)
ExportUpload(h) ==
  /\ BagIn(h, reqs)
  /\ h.kind = "export"
  /\ LET fileName == FileName(RandomUUID(DOMAIN bucket))
         object == [Key |-> fileName, Body |-> CsvContent(h.link)]
     IN /\ bucket' = (object.Key :> object.Body) @@ bucket
        /\ resp' = [Reply("export", 201, Undefined, store, object,
                          [csvUrl |-> CsvUrl(fileName)], 0)
                     EXCEPT !.found = h.link]
  /\ reqs' = reqs (-) SetToBag({h})
  /\ UNCHANGED <<store, nextId, now, started, answered>>

Upload == \E h \in Exporting : ExportUpload(h)

(* --------------------------- specification ---------------------------- *)

Init ==
  /\ store = {}
  /\ nextId = 1
  /\ now = 0
  /\ reqs = EmptyBag
  /\ started = 0
  /\ answered = << >>
  /\ bucket = << >>
  /\ resp = NoReply

Next == Create \/ Redirect \/ Visit \/ Update \/ Get \/ Delete \/ List

Spec == Init /\ [][Next]_vars

(* ---------------------- listing specification ------------------------- *)

\* The code of the k-th seeded link: "aaa" .. "aaaaaaaaaa", then "bbb" ..
SeedCode(k) ==
  LET span == CodeColumnLen - MinLen + 1
  IN IF k <= span THEN Rep("a", MinLen + k - 1) ELSE Rep("b", MinLen + k - span - 1)

\* Rows whose created_at another row carries too.
Tied(rows) == {r \in rows : \E o \in rows : o # r /\ o.created_at = r.created_at}

\* Values of now() in a seeding insert: later than every row, the instant
\* before the newest row (an insert whose transaction began earlier) when no
\* row carries it, or the instant of the newest row while no two rows tie.
SeedTimes ==
  {t \in {now - 1, now + 2} : t >= 1 /\ \A r \in store : r.created_at # t}
  \cup
  {t \in {now} : store # {} /\ Tied(store) = {}}

\* A create request with a supplied code, as the listing's tests insert links.
Seed == \E ts \in SeedTimes :
  /\ nextId <= MaxListRows
  /\ CreateLink([original_url |-> ValidUrl, code |-> SeedCode(nextId),
                 custom_name |-> Undefined], Undefined, ts)

\* Queries: every page up to MaxPage with the two smallest page sizes, and
\* one query below or above each limit of getLinksSchema.
PageQueries ==
  [page : MinPage..MaxPage, pageSize : {MinPageSize, MinPageSize + 1}]
  \cup
  {[page |-> MinPage - 1, pageSize |-> MinPageSize],
   [page |-> MinPage, pageSize |-> MinPageSize - 1],
   [page |-> MinPage, pageSize |-> MaxPageSize + 1]}

PageQuery == \E query \in PageQueries : ListLinks(query.page, query.pageSize)

NextList == Seed \/ PageQuery

SpecList == Init /\ [][NextList]_vars

(* ----------------------- export specification ------------------------- *)

\* Codes of the links the export is run over: letters, and a line break
\* between letters (custom_name is any string of three characters or more).
CsvCodes == {Rep("a", MinLen), <<"a">> \o NewLine \o <<"b">>}

\* A create request with a custom_name.
CsvSeed == \E code \in CsvCodes, ts \in SeedTimes :
  /\ nextId <= MaxCsvRows
  /\ CreateLink([original_url |-> ValidUrl, code |-> Undefined,
                 custom_name |-> code], Undefined, ts)

\* Visits of the first code, so that access counts differ between lines.
CsvVisit == Lookup("visit", Rep("a", MinLen))

NextCsv == CsvSeed \/ CsvVisit \/ Update \/ ExportRead \/ Upload

SpecCsv == Init /\ [][NextCsv]_vars

(* ------------------------------ properties ---------------------------- *)

IsPrefix(p, s) == Len(p) <= Len(s) /\ SubSeq(s, 1, Len(p)) = p

\* s with a leading "brev.ly/" removed.
StripLeadingPrefix(s) ==
  IF IsPrefix(BrevPrefix, s) THEN SubSeq(s, Len(BrevPrefix) + 1, Len(s)) ELSE s

\* No two rows share a code or an id.
UniqueCodes ==
  \A r1, r2 \in store : (r1.code = r2.code \/ r1.id = r2.id) => r1 = r2

\* C1: no lost updates.  Every stored link's access_count equals the number
\* of redirect and visit requests that found it and were answered 301 or 200
\* since it was created: each such request contributed exactly 1, whatever
\* the interleaving of their lookups and updates.
C1_NoLostUpdates ==
  /\ DOMAIN answered = Ids(store)
  /\ \A r \in store : r.access_count = answered[r.id]

\* Two requests looked the link up at the same count and both were answered.
C1_Witness ==
  /\ resp.op \in {"redirect", "visit"}
  /\ resp.updated = 1
  /\ resp.found.access_count = 0
  /\ \E r \in store : r.id = resp.found.id /\ r.access_count = 2 /\ answered[r.id] = 2

\* C2: a create request that resolves to a code no row carries is answered
\* 201 and leaves exactly one row with that code; one that resolves to a
\* code a row carries is answered 400 and leaves the table as it was (so of
\* two creates of one code, one wins and the other is told "already
\* exists"); and no two rows ever share a code.
C2_OneWinner ==
  /\ UniqueCodes
  /\ (resp.op = "create" /\ resp.submitted # Undefined) =>
       IF resp.submitted \in Codes(resp.pre)
       THEN resp.status = 400 /\ store = resp.pre
       ELSE /\ resp.status = 201
            /\ Cardinality({r \in store : r.code = resp.submitted}) = 1

\* C3: GET /api/links/:code leaves the table as it was, and answers a code
\* that a row carries with 200 and that row's fields.
C3_DataModeReadOnly ==
  resp.op = "get" =>
    /\ store = resp.pre
    /\ \A r \in resp.pre : r.code = resp.req =>
         /\ resp.status = 200
         /\ resp.body.id = r.id
         /\ resp.body.code = r.code
         /\ resp.body.original_url = r.original_url
         /\ resp.body.access_count = r.access_count
         /\ resp.body.created_at = r.created_at

\* C4: the code handed to the insert has at least 3 and at most 10 characters.
C4_SubmittedLength ==
  (resp.op = "create" /\ resp.submitted # Undefined) =>
    Len(resp.submitted) >= MinLen /\ Len(resp.submitted) <= CodeColumnLen

\* C5: a create that supplies both code and custom_name and stores a row
\* stores custom_name without its leading "brev.ly/", never the code.
C5_CustomNameWins ==
  (/\ resp.op = "create"
   /\ resp.status = 201
   /\ resp.req.code # Undefined
   /\ resp.req.custom_name # Undefined) =>
    /\ resp.body.code = StripLeadingPrefix(resp.req.custom_name)
    /\ \E r \in store : r.id = resp.body.id /\ r.code = StripLeadingPrefix(resp.req.custom_name)

\* A create request with a valid original_url and neither code nor custom_name.
GeneratedCreate ==
  /\ resp.op = "create"
  /\ IsUrl(resp.req.original_url)
  /\ resp.req.code = Undefined
  /\ resp.req.custom_name = Undefined

\* The reply is 201 with a 6-character code, and the table gained that row.
CreatedWithNanoId ==
  /\ resp.status = 201
  /\ Len(resp.body.code) = NanoLen
  /\ Cardinality(store) = Cardinality(resp.pre) + 1
  /\ \E r \in store \ resp.pre :
       /\ store = resp.pre \cup {r}
       /\ r.id = resp.body.id
       /\ r.code = resp.body.code
       /\ r.access_count = 0

\* C6 as stated: every such create succeeds with a code of length 6.
C6_AlwaysSucceeds == GeneratedCreate => CreatedWithNanoId

\* C6 as amended: such a create succeeds with a 6-character code and one new
\* row unless the generated code is already stored; then it is answered 400
\* "already exists" and the table is unchanged.
C6_SucceedsUnlessCollision ==
  GeneratedCreate =>
    /\ Len(resp.submitted) = NanoLen
    /\ IF resp.submitted \in Codes(resp.pre)
       THEN resp.status = 400 /\ store = resp.pre
       ELSE CreatedWithNanoId /\ resp.body.code = resp.submitted

\* A generated code stored beside an existing row.
C6_Witness ==
  /\ GeneratedCreate
  /\ resp.pre # {}
  /\ resp.status = 201
  /\ Len(resp.body.code) = NanoLen

\* C7: a successful create with a code of 3 to 10 characters and no
\* custom_name stores exactly that code, and its reply carries the new row's
\* id, the code, and the public base URL + "/" + code.
C7_SuppliedCodeStored ==
  (/\ resp.op = "create"
   /\ resp.status = 201
   /\ resp.req.custom_name = Undefined
   /\ resp.req.code # Undefined
   /\ Len(resp.req.code) >= MinLen
   /\ Len(resp.req.code) <= CodeColumnLen) =>
    /\ resp.body.code = resp.req.code
    /\ resp.body.shortUrl = PublicUrl \o <<"/">> \o resp.req.code
    /\ \E r \in store \ resp.pre :
         /\ store = resp.pre \cup {r}
         /\ r.id = resp.body.id
         /\ r.code = resp.req.code
         /\ r.original_url = resp.req.original_url

C7_Witness ==
  /\ resp.op = "create"
  /\ resp.status = 201
  /\ resp.req.custom_name = Undefined
  /\ resp.req.code = Rep("a", MinLen)
  /\ resp.pre # {}

\* C8: a create that fails validation is answered with a 4xx status, a
\* unique-constraint conflict with 400, any other failure of the insert with
\* 500, and in all three cases the table is unchanged.
C8_CreateErrors ==
  resp.op = "create" =>
    /\ (\/ ~IsUrl(resp.req.original_url)
        \/ (resp.req.code # Undefined /\ Len(resp.req.code) < MinLen)
        \/ (resp.req.custom_name # Undefined /\ Len(resp.req.custom_name) < MinLen)) =>
         resp.status >= 400 /\ resp.status <= 499 /\ store = resp.pre
    /\ (resp.submitted # Undefined /\ resp.submitted \in Codes(resp.pre)) =>
         resp.status = 400 /\ store = resp.pre
    /\ (resp.submitted # Undefined /\ Len(resp.submitted) > CodeColumnLen) =>
         resp.status = 500 /\ store = resp.pre

\* C9: DELETE answers 404 for a code no row carries and changes nothing; for
\* a code a row carries it answers 204 and removes that row alone, so that
\* the code is gone from the table until a create stores it again.
C9_Delete ==
  resp.op = "delete" =>
    IF resp.req \in Codes(resp.pre)
    THEN /\ resp.status = 204
         /\ store = {r \in resp.pre : r.code # resp.req}
         /\ resp.req \notin Codes(store)
    ELSE resp.status = 404 /\ store = resp.pre

\* C10: on a table of distinct created_at, a list request with page >= 1 and
\* pageSize in 10..100 changes nothing and returns, at position i, the row
\* that has exactly (page-1)*pageSize + i - 1 rows newer than it, for every
\* position up to pageSize that the table fills.
C10_PageOfNewestFirst ==
  (/\ resp.op = "list"
   /\ resp.req.page >= 1
   /\ resp.req.pageSize >= 10
   /\ resp.req.pageSize <= 100
   /\ Tied(resp.pre) = {}) =>
    LET skip == (resp.req.page - 1) * resp.req.pageSize
        left == Cardinality(resp.pre) - skip
    IN /\ store = resp.pre
       /\ resp.status = 200
       /\ Len(resp.body) = Max(0, Min(resp.req.pageSize, left))
       /\ \A i \in 1..Len(resp.body) :
            \E r \in resp.pre :
              /\ Cardinality({o \in resp.pre : o.created_at > r.created_at}) = skip + i - 1
              /\ resp.body[i].id = r.id
              /\ resp.body[i].code = r.code
              /\ resp.body[i].original_url = r.original_url
              /\ resp.body[i].access_count = r.access_count
              /\ resp.body[i].created_at = r.created_at

\* A second page that is not empty, on rows not created in created_at order.
C10_Witness ==
  /\ resp.op = "list"
  /\ resp.status = 200
  /\ resp.req.page = 2
  /\ Len(resp.body) >= 1
  /\ Tied(resp.pre) = {}
  /\ \E r1, r2 \in resp.pre : r1.id < r2.id /\ r1.created_at > r2.created_at

\* The lines of a text: its pieces between line breaks.
RECURSIVE Lines(_)
Lines(s) ==
  LET i == IndexOf(s, NewLine)
  IN IF i = 0 THEN <<s>>
     ELSE <<SubSeq(s, 1, i - 1)>> \o Lines(SubSeq(s, i + 1, Len(s)))

\* The uploaded text is the header and one line per link read, in the order
\* read, which is newest first.
OneRowPerLink(content, allLinks) ==
  LET rows == Lines(content)
  IN /\ Len(rows) = Len(allLinks) + 1
     /\ rows[1] = CsvHeaderLine
     /\ \A i \in 1..Len(allLinks) : rows[i + 1] = CsvLine(allLinks[i])
     /\ \A i, j \in 1..Len(allLinks) :
          i < j => allLinks[i].created_at >= allLinks[j].created_at

\* The reply of an export and what it left behind, but for the rows: the
\* table as before; 400 and no object when no link was read, otherwise 201,
\* one object in the bucket and its URL in the reply.
ExportReply ==
  /\ store = resp.pre
  /\ IF Len(resp.found) = 0
     THEN resp.status = 400 /\ resp.submitted = Undefined
     ELSE /\ resp.status = 201
          /\ resp.submitted.Key \in DOMAIN bucket
          /\ bucket[resp.submitted.Key] = resp.submitted.Body
          /\ resp.body = [csvUrl |-> CsvUrl(resp.submitted.Key)]

\* C11: an export over zero links answers 400 and uploads nothing; over at
\* least one link it uploads one object and answers 201 with its URL, and the
\* content has (links read) + 1 rows, the header first, then one row per
\* link, newest first; the table is unchanged in every case.
C11_ExportRows ==
  resp.op = "export" =>
    /\ ExportReply
    /\ Len(resp.found) > 0 => OneRowPerLink(resp.submitted.Body, resp.found)

\* The same for exports over links whose code holds no line break.
ExportRowsOfOneLineCodes ==
  (resp.op = "export" /\ \A i \in 1..Len(resp.found) :
                           IndexOf(resp.found[i].code, NewLine) = 0) =>
    /\ ExportReply
    /\ Len(resp.found) > 0 => OneRowPerLink(resp.submitted.Body, resp.found)

\* An export over two links with different access counts was answered 201
\* while the table had changed since its select.
ExportOfTwoLinks ==
  /\ resp.op = "export"
  /\ resp.status = 201
  /\ Len(resp.found) = 2
  /\ resp.found[1].access_count # resp.found[2].access_count
  /\ {resp.found[i] : i \in 1..2} # store

\* One step that changes the table or the sequence, seen from the rows: a
\* row that stays keeps id, code, original_url and created_at, and its
\* access_count stays or grows by one, the latter only in the step that
\* answers a redirect or visit request that found this row; a row that
\* appears starts at 0 with an id the sequence has not handed out before,
\* larger than every id in the table; the sequence never goes back and is
\* ahead of every stored id.
RowSteps ==
  (store' # store \/ nextId' # nextId) =>
    /\ \A r \in store : \A q \in store' :
         q.id = r.id =>
           /\ q.code = r.code
           /\ q.original_url = r.original_url
           /\ q.created_at = r.created_at
           /\ \/ q.access_count = r.access_count
              \/ /\ q.access_count = r.access_count + 1
                 /\ resp'.op \in {"redirect", "visit"}
                 /\ resp'.status = DoneStatus(resp'.op)
                 /\ resp'.found.id = r.id
    /\ \A q \in store' :
         /\ q.access_count >= 0
         /\ q.id < nextId'
         /\ q.id \notin Ids(store) =>
              /\ q.access_count = 0
              /\ q.id >= nextId
              /\ \A r \in store : r.id < q.id
    /\ Cardinality(Ids(store')) = Cardinality(store')
    /\ nextId' >= nextId

\* C12: from its creation to its deletion a row's access_count starts at 0,
\* is never negative, never decreases and changes only by +1 in a redirect
\* or visit request; its id, code, original_url and created_at never change;
\* an id is never assigned twice, later ids being strictly larger.
C12_RowLifetime == [][RowSteps]_vars

\* A row created after the first one has been counted twice, and the first
\* row is deleted.
C12_Witness ==
  /\ 1 \notin Ids(store)
  /\ \E r \in store : r.id > 1 /\ r.access_count = NumReqs

\* A redirect or visit request has been answered after its update.
Incremented == resp.op \in {"redirect", "visit"} /\ resp.status = DoneStatus(resp.op)

\* C13: a redirect answered 301 has incremented the access_count of the link
\* it looked up by exactly 1, and a redirect answered 404 has changed
\* nothing, whatever DELETE and create requests ran in between.
C13_RedirectCounts ==
  resp.op = "redirect" =>
    /\ resp.status = 301 =>
         \E r \in resp.pre :
           /\ r.id = resp.found.id
           /\ store = (resp.pre \ {r}) \cup {[r EXCEPT !.access_count = @ + 1]}
    /\ resp.status = 404 => store = resp.pre

\* C14: the increment goes to the row with the id the request's lookup
\* returned and to no other row, a row of the same code included; so the
\* access_count of every row is the number of answered requests whose
\* lookup returned its id.
C14_IncrementById ==
  /\ Incremented =>
       /\ \A r \in store : r.id # resp.found.id => r \in resp.pre
       /\ \A r \in resp.pre : r.id # resp.found.id => r \in store
       /\ \A r \in store : r.id = resp.found.id =>
            \E o \in resp.pre : o.id = r.id /\ r.access_count = o.access_count + 1
  /\ \A r \in store : r.id \in DOMAIN answered /\ r.access_count = answered[r.id]

\* A request was answered after the link it found had been deleted and a
\* new link created with the same code: the new row is still at 0.
C14_Witness ==
  /\ Incremented
  /\ resp.updated = 0
  /\ \E r \in store : /\ r.code = resp.found.code
                      /\ r.id # resp.found.id
                      /\ r.access_count = 0
====
